---- MODULE Spec2Model ----
(***************************************************************************)
(* allenopt: the `allenopt` and `best-params` subcommands                  *)
(* (src/allenopt/commands/allenopt.py).                                    *)
(*                                                                         *)
(* optimize_hyperparameters reads its arguments, builds the pruner from    *)
(* the optional Optuna config, creates or loads the study in the storage   *)
(* and runs study.optimize(objective, n_trials, timeout).  Several such    *)
(* processes may run against the same study name and storage.              *)
(* export_hyperparameters loads the study and prints best_params.          *)
(*                                                                         *)
(* The study lives in the storage: one record per trial, numbered in       *)
(* creation order.  What the Optuna calls do at each call site follows     *)
(* the arguments the source passes (or leaves at their default).           *)
(***************************************************************************)
EXTENDS Integers, Sequences, FiniteSets, TLC

\* ---------------------------------------------------------------- bounds

\* largest --n-trials a user gives in the checked runs
MaxTrials == 2
\* most intermediate values the training run reports in one trial
MaxSteps == 1

\* the Orchestrator processes sharing one study name and one storage
Procs == {"w1", "w2"}
\* metric values the training run reports and returns
Values == {1, 2}

\* ------------------------------------------------------- program constants

\* --n-trials: default=50
DefaultNTrials == 50
\* pruner=None makes the study use MedianPruner(n_startup_trials=5)
NStartupTrials == 5

\* an option that was not given, a value that is not set
None == <<>>
Some(x) == <<x>>
Get(o) == o[1]

\* --------------------------------------------------------------- state

VARIABLES
    args,      \* args[p]: the parsed command line and Optuna config of process p
    study,     \* the study record in the storage (one study name)
    pc,        \* pc[p]: where process p stands
    cur,       \* cur[p]: number of the trial p is running, if any
    started,   \* started[p]: trials p's optimize loop has started
    elapsed,   \* elapsed[p]: p's --timeout has elapsed
    out,       \* what a best-params export has just printed or raised
    asked,     \* the trial numbers the storage has handed out, in order
    loaded,    \* loaded[p]: the number of trials in the study p loaded, if p
               \* loaded an existing study
    dirs,      \* the trial directories that exist under the serialization
               \* directories, each with the trial whose run created it
    space      \* space[p]: the descriptors p's objective read from hparam_path
               \* last, if it has read them

vars == <<args, study, pc, cur, started, elapsed, out, asked, loaded, dirs, space>>

\* ------------------------------------------------------------ arguments

\* argparse: --skip-if-exists (store_true), --n-trials (default 50), --timeout
\* (no default), the "pruner" section of --optuna-param-path (optional), and
\* param_path, the training configuration, which fixes how the training run
\* behaves: "epoch" reports one to MaxSteps values and returns the last one,
\* "plain" reports nothing and returns any value, "ramp" reports nothing
\* and returns a greater value in every trial.  Every training run may also
\* raise.
\* A pruner section may also name a class optuna.pruners does not have.
\* hparam_path names the file of hyperparameter descriptors and
\* serialization_dir the directory the trial directories are made in.
PrunerSections ==
    {None, Some("NopPruner"), Some("ThresholdPruner"), Some("NoSuchPruner")}
ParamPaths == {"epoch", "plain", "ramp"}
HparamPaths == {"seed", "lr", "lr_opt", "edited", "bogus", "badbounds"}
SerializationDirs == {"fresh", "used"}

ArgSpace ==
    [skip_if_exists : BOOLEAN,
     n_trials : {Some(k) : k \in (1..MaxTrials) \cup {NStartupTrials + 1}} \cup {None},
     timeout : BOOLEAN,
     pruner : PrunerSections,
     param_path : ParamPaths,
     hparam_path : HparamPaths,
     serialization_dir : SerializationDirs]

\* load_if_exists = args.skip_if_exists
\* (LoadIfExistsAlways: the flag ignored)
LoadIfExistsAlways(a) == TRUE
LoadIfExists(a) == a.skip_if_exists

\* n_trials = args.n_trials: the argparse default when --n-trials is not given
NTrialsOf(a) == IF a.n_trials = None THEN DefaultNTrials ELSE Get(a.n_trials)

\* if "pruner" in optuna_config: the named class, else pruner = None
PrunerOf(a) == a.pruner

\* create_study(pruner=pruner): a pruner of None attaches the MedianPruner
\* (StudyPrunerDropped: the configured pruner not handed to the study)
StudyPrunerDropped(a) == "NopPruner"
StudyPruner(a) == IF PrunerOf(a) = None THEN "MedianPruner" ELSE Get(PrunerOf(a))

\* ------------------------------------------------------------ the study

NoStudy == [exists |-> FALSE, direction |-> "minimize", trials |-> <<>>]

\* what create_study writes for a name that is free: a study without trials
NewStudy(d) == [exists |-> TRUE, direction |-> d, trials |-> <<>>]

\* what create_study returns for a name that exists, when load_if_exists:
\* the study as the storage holds it
\* (LoadStudyEmptied: a study without the trials recorded so far)
LoadStudyEmptied(st) == NewStudy(st.direction)
LoadStudy(st) == st

\* trial numbers start at 0; trials[i] is the record of trial number i - 1
TrialNumbers(st) == 0..(Len(st.trials) - 1)
TrialOf(st, n) == st.trials[n + 1]

\* the record create_new_trial writes: RUNNING, nothing reported, no value
NewTrial ==
    [state |-> "RUNNING", inter |-> <<>>, value |-> None, params |-> <<>>,
     error |-> ""]

\* the number the storage gives the next trial of the study
\* (NextTrialNumberFinished: counting only the trials that have finished)
NextTrialNumberFinished(st) ==
    Cardinality({i \in 1..Len(st.trials) : st.trials[i].state # "RUNNING"})
NextTrialNumber(st) == Len(st.trials)

\* the study with rec written as the record of trial n
\* (SetTrialFirst: written over the first trial)
SetTrialFirst(st, n, rec) == [st EXCEPT !.trials[1] = rec]
SetTrial(st, n, rec) == [st EXCEPT !.trials[n + 1] = rec]

CompleteTrials(st) == {n \in TrialNumbers(st) : TrialOf(st, n).state = "COMPLETE"}

\* ------------------------------------------------------------- pruners

RECURSIVE SeqMin(_), SeqMax(_)
SeqMin(s) == IF Len(s) = 1 THEN s[1]
             ELSE LET m == SeqMin(Tail(s)) IN IF s[1] < m THEN s[1] ELSE m
SeqMax(s) == IF Len(s) = 1 THEN s[1]
             ELSE LET m == SeqMax(Tail(s)) IN IF s[1] > m THEN s[1] ELSE m

\* the k-th smallest of the values the trials of ns reported at step
KthSmallest(st, ns, step, k) ==
    CHOOSE v \in Values :
        /\ Cardinality({n \in ns : TrialOf(st, n).inter[step] < v}) < k
        /\ Cardinality({n \in ns : TrialOf(st, n).inter[step] <= v}) >= k

\* twice the median of those values (twice: the median of an even number of
\* integers may be a half)
TwiceMedian(st, ns, step) ==
    LET c == Cardinality(ns) IN
    IF c % 2 = 1 THEN 2 * KthSmallest(st, ns, step, (c + 1) \div 2)
    ELSE KthSmallest(st, ns, step, c \div 2) + KthSmallest(st, ns, step, c \div 2 + 1)

\* MedianPruner.prune: never before n_startup_trials trials are COMPLETE;
\* then the trial's best intermediate value against the median of the
\* COMPLETE trials' values at the same step
MedianPrune(st, n) ==
    LET t == TrialOf(st, n)
        step == Len(t.inter)
        at == {m \in CompleteTrials(st) : Len(TrialOf(st, m).inter) >= step}
    IN  /\ Cardinality(CompleteTrials(st)) >= NStartupTrials
        /\ step > 0
        /\ at # {}
        /\ IF st.direction = "maximize"
             THEN 2 * SeqMax(t.inter) < TwiceMedian(st, at, step)
             ELSE 2 * SeqMin(t.inter) > TwiceMedian(st, at, step)

\* trial.should_prune() of trial n, asked by a process whose study object
\* holds pruner pr.  The configured ThresholdPruner rejects every value.
ShouldPrune(pr, st, n) ==
    CASE pr = "NopPruner" -> FALSE
      [] pr = "ThresholdPruner" -> Len(TrialOf(st, n).inter) > 0
      [] pr = "MedianPruner" -> MedianPrune(st, n)

\* ------------------------------------------- hyperparameter descriptors

\* descriptors {"type": ..., "keyword": {"name": ..., ...}} of the files
Seed == [name |-> "seed", type |-> "int", low |-> 1, high |-> 1, choices |-> {}]
Lr == [name |-> "lr", type |-> "int", low |-> 1, high |-> 2, choices |-> {}]
Opt == [name |-> "opt", type |-> "categorical", low |-> 3, high |-> 5, choices |-> {3, 5}]
Bogus == [name |-> "x", type |-> "bogus", low |-> 1, high |-> 1, choices |-> {}]
BadBounds == [name |-> "y", type |-> "int", low |-> 2, high |-> 1, choices |-> {}]

\* json.load(open(hparam_path)): the descriptor lists the file of a.hparam_path
\* may hold when the objective reads it ("edited" is a file that is edited
\* while the run goes on)
HparamFile(a) ==
    CASE a.hparam_path = "seed" -> {<<Seed>>}
      [] a.hparam_path = "lr" -> {<<Lr>>}
      [] a.hparam_path = "lr_opt" -> {<<Lr, Opt>>}
      [] a.hparam_path = "edited" -> {<<Seed>>, <<Seed, Lr>>}
      [] a.hparam_path = "bogus" -> {<<Seed, Bogus>>}
      [] a.hparam_path = "badbounds" -> {<<BadBounds>>}

\* getattr(trial, "suggest_{}".format(attr_type)) finds a method
HasSuggest(d) == d.type \in {"int", "categorical"}

\* suggest(**hparam["keyword"]) accepts the keywords
ValidKeyword(d) ==
    CASE d.type = "int" -> d.low <= d.high
      [] d.type = "categorical" -> d.choices # {}

\* what a descriptor that does not pass raises
ErrorOf(d) == IF ~HasSuggest(d) THEN "AttributeError" ELSE "ValueError"

\* the index of the first descriptor of h that raises, 0 if none does
FirstBad(h) ==
    LET Bad(i) == ~HasSuggest(h[i]) \/ ~ValidKeyword(h[i]) IN
    IF \E i \in 1..Len(h) : Bad(i)
      THEN CHOOSE i \in 1..Len(h) : Bad(i) /\ \A j \in 1..(i - 1) : ~Bad(j)
      ELSE 0

\* the values suggest(**hparam["keyword"]) may return for descriptor d
\* (SuggestLoose: the keywords not bounding the value)
SuggestLoose(d) == (d.low - 1)..(d.high + 1)
Suggest(d) ==
    CASE d.type = "int" -> d.low..d.high
      [] d.type = "categorical" -> d.choices

\* the params a trial may hold after the loop over the descriptors h: one
\* suggested value for each, in the order of the file
RECURSIVE Samples(_)
Samples(h) ==
    IF h = <<>> THEN {<<>>}
    ELSE {<<[name |-> h[1].name, value |-> v]>> \o r :
              v \in Suggest(h[1]), r \in Samples(Tail(h))}

\* ------------------------------------------------------ trial directories

\* os.path.join(serialization_dir, "trial_{}".format(trial.number))
\* (TrialDirShared: the trial number left out of the path)
TrialDirShared(a, n) == <<a.serialization_dir, 0>>
TrialDir(a, n) == <<a.serialization_dir, n>>

\* the directory "used" holds the trial_1 of an earlier study
ExistingDirs == {[path |-> <<"used", 1>>, by |-> None]}

DirExists(path) == \E d \in dirs : d.path = path

\* ------------------------------------------------- the training collaborator

\* executor.run(): the values the training run of configuration
\* a.param_path may report next, given the record t of its trial
Reports(a, t) ==
    CASE a.param_path = "epoch" -> IF Len(t.inter) < MaxSteps THEN Values ELSE {}
      [] a.param_path = "plain" -> {}
      [] a.param_path = "ramp" -> {}

\* and the values it may return as the metric of trial number n
Returns(a, n, t) ==
    CASE a.param_path = "epoch" ->
            IF Len(t.inter) >= 1 THEN {t.inter[Len(t.inter)]} ELSE {}
      [] a.param_path = "plain" -> Values
      [] a.param_path = "ramp" -> {n + 1}

\* ------------------------------------------------------------- best trial

\* study.best_trial: a COMPLETE trial whose value is the least (minimize) or
\* the greatest (maximize); the storage's query does not say which of several
\* trials of that value it returns
IsBest(st, n) ==
    /\ n \in CompleteTrials(st)
    /\ \A m \in CompleteTrials(st) :
         IF st.direction = "maximize"
           THEN Get(TrialOf(st, m).value) <= Get(TrialOf(st, n).value)
           ELSE Get(TrialOf(st, m).value) >= Get(TrialOf(st, n).value)

\* --------------------------------------------------------------- actions

NoOutput == [raised |-> "", best |-> None, printed |-> <<>>]

Alive(p) == pc[p] \in {"start", "loop", "asked", "train", "pruned"}

\* the pruner section names a class that getattr(optuna.pruners, ...) finds
PrunerClassFound(a) == PrunerOf(a) # Some("NoSuchPruner")

\* the run up to optimize: the pruner is built from its section, which
\* raises AttributeError for a class optuna.pruners does not have; then
\* optuna.create_study(study_name, direction, storage, pruner, sampler,
\* load_if_exists): a new study when the name is free; the existing study
\* when load_if_exists; DuplicatedStudyError otherwise
CreateStudy(p) ==
    /\ pc[p] = "start"
    /\ IF ~PrunerClassFound(args[p])
         THEN /\ study' = study
              /\ pc' = [pc EXCEPT ![p] = "AttributeError"]
              /\ loaded' = loaded
         ELSE IF ~study.exists
         THEN /\ \E d \in {"minimize", "maximize"} : study' = NewStudy(d)
              /\ pc' = [pc EXCEPT ![p] = "loop"]
              /\ loaded' = loaded
         ELSE IF LoadIfExists(args[p])
         THEN /\ study' = LoadStudy(study)
              /\ pc' = [pc EXCEPT ![p] = "loop"]
              /\ loaded' = [loaded EXCEPT ![p] = Some(Len(study.trials))]
         ELSE /\ study' = study
              /\ pc' = [pc EXCEPT ![p] = "DuplicatedStudyError"]
              /\ loaded' = loaded
    /\ out' = NoOutput
    /\ UNCHANGED <<args, cur, started, elapsed, asked, dirs, space>>

\* study.optimize(objective, n_trials=n_trials, timeout=timeout): the loop
\* ends before a trial once n_trials trials were started or the timeout
\* has elapsed
\* (LimitReachedLate: one trial too late; LimitReachedCount: the timeout
\* not looked at)
LimitReachedCount(p) == started[p] >= NTrialsOf(args[p])
LimitReachedLate(p) ==
    \/ started[p] > NTrialsOf(args[p])
    \/ args[p].timeout /\ elapsed[p]
LimitReached(p) ==
    \/ started[p] >= NTrialsOf(args[p])
    \/ args[p].timeout /\ elapsed[p]

StopLoop(p) ==
    /\ pc[p] = "loop"
    /\ LimitReached(p)
    /\ pc' = [pc EXCEPT ![p] = "done"]
    /\ out' = NoOutput
    /\ UNCHANGED <<args, study, cur, started, elapsed, asked, loaded, dirs, space>>

\* otherwise the loop creates the next trial in the storage, RUNNING, and
\* calls the objective with it
Ask(p) ==
    /\ pc[p] = "loop"
    /\ ~LimitReached(p)
    /\ study' = [study EXCEPT !.trials = Append(@, NewTrial)]
    /\ cur' = [cur EXCEPT ![p] = Some(NextTrialNumber(study))]
    /\ started' = [started EXCEPT ![p] = @ + 1]
    /\ pc' = [pc EXCEPT ![p] = "asked"]
    /\ asked' = Append(asked, NextTrialNumber(study))
    /\ out' = NoOutput
    /\ UNCHANGED <<args, elapsed, loaded, dirs, space>>

\* where a process stands after its objective raised: optimize is called
\* without catch=, so it records the trial as FAIL and raises again
AfterFailure(p) == "raised"

\* the state optimize records for a trial whose objective raised
\* (FailStateRunning: the trial left as it was)
FailStateRunning == "RUNNING"
FailState == "FAIL"

\* the objective up to the start of the training run: it reads the
\* descriptors and has the trial suggest a value for each, in order, then
\* hands the trial directory to the executor, whose run makes the directory
\* and refuses one that exists.  A descriptor that raises ends the loop over
\* the descriptors, and the objective, there.
Begin(p) ==
    /\ pc[p] = "asked"
    /\ \E h \in HparamFile(args[p]) :
         LET n == Get(cur[p])
             t == TrialOf(study, n)
             k == FirstBad(h)
             dir == TrialDir(args[p], n)
         IN  /\ space' = [space EXCEPT ![p] = Some(h)]
             /\ IF k # 0
                  THEN /\ \E ps \in Samples(SubSeq(h, 1, k - 1)) :
                            study' = SetTrial(study, n,
                                        [t EXCEPT !.params = ps, !.state = FailState,
                                                  !.error = ErrorOf(h[k])])
                       /\ cur' = [cur EXCEPT ![p] = None]
                       /\ pc' = [pc EXCEPT ![p] = AfterFailure(p)]
                       /\ dirs' = dirs
                  ELSE \E ps \in Samples(h) :
                         IF DirExists(dir)
                           THEN /\ study' = SetTrial(study, n,
                                        [t EXCEPT !.params = ps, !.state = FailState,
                                                  !.error = "DirectoryConflictError"])
                                /\ cur' = [cur EXCEPT ![p] = None]
                                /\ pc' = [pc EXCEPT ![p] = AfterFailure(p)]
                                /\ dirs' = dirs
                           ELSE /\ study' = SetTrial(study, n, [t EXCEPT !.params = ps])
                                /\ cur' = cur
                                /\ pc' = [pc EXCEPT ![p] = "train"]
                                /\ dirs' = dirs \cup {[path |-> dir, by |-> Some(n)]}
    /\ out' = NoOutput
    /\ UNCHANGED <<args, started, elapsed, asked, loaded>>

\* the training run reports an intermediate value and asks should_prune;
\* a true answer raises TrialPruned inside the objective
Report(p) ==
    /\ pc[p] = "train"
    /\ \E v \in Reports(args[p], TrialOf(study, Get(cur[p]))) :
       LET t == TrialOf(study, Get(cur[p]))
           st == SetTrial(study, Get(cur[p]), [t EXCEPT !.inter = Append(@, v)])
       IN  /\ study' = st
           /\ pc' = [pc EXCEPT ![p] =
                  IF ShouldPrune(StudyPruner(args[p]), st, Get(cur[p]))
                    THEN "pruned" ELSE "train"]
    /\ out' = NoOutput
    /\ UNCHANGED <<args, cur, started, elapsed, asked, loaded, dirs, space>>

\* optimize catches TrialPruned: the trial becomes PRUNED, its value the
\* last value it reported, and the loop goes on
TellPruned(p) ==
    /\ pc[p] = "pruned"
    /\ LET t == TrialOf(study, Get(cur[p])) IN
         study' = SetTrial(study, Get(cur[p]),
                     [t EXCEPT !.state = "PRUNED", !.value = Some(t.inter[Len(t.inter)])])
    /\ cur' = [cur EXCEPT ![p] = None]
    /\ pc' = [pc EXCEPT ![p] = "loop"]
    /\ out' = NoOutput
    /\ UNCHANGED <<args, started, elapsed, asked, loaded, dirs, space>>

\* the objective returns the metric: the trial becomes COMPLETE with it
Return(p) ==
    /\ pc[p] = "train"
    /\ LET t == TrialOf(study, Get(cur[p])) IN
         \E v \in Returns(args[p], Get(cur[p]), t) :
            study' = SetTrial(study, Get(cur[p]),
                        [t EXCEPT !.state = "COMPLETE", !.value = Some(v)])
    /\ cur' = [cur EXCEPT ![p] = None]
    /\ pc' = [pc EXCEPT ![p] = "loop"]
    /\ out' = NoOutput
    /\ UNCHANGED <<args, started, elapsed, asked, loaded, dirs, space>>

\* the objective raises (the training run fails)
Fail(p) ==
    /\ pc[p] = "train"
    /\ LET t == TrialOf(study, Get(cur[p])) IN
         study' = SetTrial(study, Get(cur[p]),
                     [t EXCEPT !.state = FailState, !.error = "TrainingError"])
    /\ cur' = [cur EXCEPT ![p] = None]
    /\ pc' = [pc EXCEPT ![p] = AfterFailure(p)]
    /\ out' = NoOutput
    /\ UNCHANGED <<args, started, elapsed, asked, loaded, dirs, space>>

\* the --timeout of a running process elapses
Tick(p) ==
    /\ pc[p] \in {"loop", "train"}
    /\ args[p].timeout
    /\ ~elapsed[p]
    /\ elapsed' = [elapsed EXCEPT ![p] = TRUE]
    /\ out' = NoOutput
    /\ UNCHANGED <<args, study, pc, cur, started, asked, loaded, dirs, space>>

\* the process is interrupted from outside; a trial it was running stays
\* RUNNING in the storage
Interrupt(p) ==
    /\ pc[p] \in {"loop", "asked", "train", "pruned"}
    /\ pc' = [pc EXCEPT ![p] = "killed"]
    /\ out' = NoOutput
    /\ UNCHANGED <<args, study, cur, started, elapsed, asked, loaded, dirs, space>>

\* " ".join("{}={}".format(k, v) for k, v in study.best_params.items()),
\* n the best trial: its params as name=value pairs, in their order
\* (BestParamsFirst: the params of the first trial)
BestParamsFirst(st, n) == TrialOf(st, 0).params
BestParams(st, n) == TrialOf(st, n).params

\* export_hyperparameters: load_study, then print study.best_params
Export ==
    /\ \/ /\ ~study.exists
          /\ out' = [raised |-> "KeyError", best |-> None, printed |-> <<>>]
       \/ /\ study.exists
          /\ CompleteTrials(study) = {}
          /\ out' = [raised |-> "ValueError", best |-> None, printed |-> <<>>]
       \/ /\ study.exists
          /\ \E n \in TrialNumbers(study) :
                /\ IsBest(study, n)
                /\ out' = [raised |-> "", best |-> Some(n),
                           printed |-> BestParams(study, n)]
    /\ UNCHANGED <<args, study, pc, cur, started, elapsed, asked, loaded, dirs, space>>

Next ==
    \/ \E p \in Procs : CreateStudy(p)
    \/ \E p \in Procs : StopLoop(p)
    \/ \E p \in Procs : Ask(p)
    \/ \E p \in Procs : Begin(p)
    \/ \E p \in Procs : Report(p)
    \/ \E p \in Procs : TellPruned(p)
    \/ \E p \in Procs : Return(p)
    \/ \E p \in Procs : Fail(p)
    \/ \E p \in Procs : Tick(p)
    \/ \E p \in Procs : Interrupt(p)
    \/ Export

\* ------------------------------------------------------- specifications

InitWith(A) ==
    /\ args \in A
    /\ study = NoStudy
    /\ pc = [p \in Procs |-> "start"]
    /\ cur = [p \in Procs |-> None]
    /\ started = [p \in Procs |-> 0]
    /\ elapsed = [p \in Procs |-> FALSE]
    /\ out = NoOutput
    /\ asked = <<>>
    /\ loaded = [p \in Procs |-> None]
    /\ dirs = ExistingDirs
    /\ space = [p \in Procs |-> None]

\* runs in which every process is given --n-trials: w1 trains a model that
\* reports nothing, with the default pruner; w2, which loads the study when
\* it exists, one that reports, under a timeout, with a pruner that rejects
\* every value
MainArgs(p) ==
    {a \in ArgSpace :
        /\ a.serialization_dir = "fresh"
        /\ a.n_trials = Some(MaxTrials)
        /\ IF p = "w1"
             THEN /\ a.hparam_path = "seed"
                  /\ a.param_path = "ramp"
                  /\ ~a.timeout
                  /\ a.pruner = None
                  /\ ~a.skip_if_exists
             ELSE /\ a.hparam_path = "seed"
                  /\ a.param_path = "epoch"
                  /\ a.timeout
                  /\ a.pruner = Some("ThresholdPruner")
                  /\ a.skip_if_exists}

Init == InitWith({A \in [Procs -> ArgSpace] : \A p \in Procs : A[p] \in MainArgs(p)})

Spec == Init /\ [][Next]_vars

\* the same runs, in which every process that can take a step of its own
\* (one that is neither its timeout elapsing nor an interrupt from outside)
\* eventually takes one: a process keeps running and a training run ends
OwnStep(p) ==
    \/ CreateStudy(p)
    \/ StopLoop(p)
    \/ Ask(p)
    \/ Begin(p)
    \/ Report(p)
    \/ TellPruned(p)
    \/ Return(p)
    \/ Fail(p)

FairSpec == Init /\ [][Next]_vars /\ \A p \in Procs : WF_vars(OwnStep(p))

\* runs without a pruner section: w1 is given --n-trials one above the
\* MedianPruner's startup trials and trains a model that reports; the
\* process that comes second finds the study name taken
MedianArgs(p) ==
    {a \in ArgSpace :
        /\ a.hparam_path = "seed"
        /\ a.serialization_dir = "fresh"
        /\ a.pruner = None
        /\ IF p = "w1"
             THEN /\ a.n_trials = Some(NStartupTrials + 1)
                  /\ a.param_path = "epoch"
                  /\ a.timeout
                  /\ ~a.skip_if_exists
             ELSE /\ a.n_trials = Some(1)
                  /\ a.param_path = "ramp"
                  /\ ~a.timeout
                  /\ ~a.skip_if_exists}

InitMedian ==
    InitWith({A \in [Procs -> ArgSpace] : \A p \in Procs : A[p] \in MedianArgs(p)})

SpecMedian == InitMedian /\ [][Next]_vars

\* runs in which w1 is given neither --n-trials nor --timeout; the process
\* that comes second finds the study name taken
DefaultArgs(p) ==
    {a \in ArgSpace :
        /\ a.hparam_path = "seed"
        /\ a.serialization_dir = "fresh"
        /\ IF p = "w1"
             THEN /\ a.n_trials = None
                  /\ ~a.timeout
                  /\ a.param_path = "ramp"
                  /\ a.pruner = None
                  /\ ~a.skip_if_exists
             ELSE /\ a.n_trials = Some(1)
                  /\ a.timeout
                  /\ a.param_path = "epoch"
                  /\ a.pruner = Some("ThresholdPruner")
                  /\ ~a.skip_if_exists}

InitDefault ==
    InitWith({A \in [Procs -> ArgSpace] : \A p \in Procs : A[p] \in DefaultArgs(p)})

SpecDefault == InitDefault /\ [][Next]_vars

\* runs in which every process is configured with the pruner that rejects
\* every reported value
PruneArgs(p) ==
    {a \in ArgSpace :
        /\ a.hparam_path = "seed"
        /\ a.serialization_dir = "fresh"
        /\ a.pruner = Some("ThresholdPruner")
        /\ IF p = "w1"
             THEN /\ a.n_trials = Some(MaxTrials)
                  /\ a.param_path = "plain"
                  /\ ~a.timeout
                  /\ ~a.skip_if_exists
             ELSE /\ a.n_trials \in {Some(k) : k \in 1..MaxTrials}
                  /\ a.param_path = "epoch"
                  /\ a.timeout
                  /\ a.skip_if_exists}

InitPrune ==
    InitWith({A \in [Procs -> ArgSpace] : \A p \in Procs : A[p] \in PruneArgs(p)})

SpecPrune == InitPrune /\ [][Next]_vars

\* runs in which w1 is given a file of descriptors with an unknown type or
\* with bounds that suggest rejects, and w2, which loads the study when it
\* exists, any of the pruner sections
MalformedArgs(p) ==
    {a \in ArgSpace :
        /\ a.serialization_dir = "fresh"
        /\ IF p = "w1"
             THEN /\ a.hparam_path \in {"bogus", "badbounds"}
                  /\ a.n_trials = Some(MaxTrials)
                  /\ a.param_path = "ramp"
                  /\ ~a.timeout
                  /\ a.pruner = None
                  /\ a.skip_if_exists
             ELSE /\ a.hparam_path = "seed"
                  /\ a.n_trials = Some(MaxTrials)
                  /\ a.param_path = "epoch"
                  /\ a.timeout
                  /\ a.pruner # None
                  /\ a.skip_if_exists}

InitMalformed ==
    InitWith({A \in [Procs -> ArgSpace] : \A p \in Procs : A[p] \in MalformedArgs(p)})

SpecMalformed == InitMalformed /\ [][Next]_vars

\* runs over search spaces of more than one value: w1, which loads the
\* study when it exists, reads a file that is edited while it runs; w2 a
\* file of two descriptors, for one trial
ParamsArgs(p) ==
    {a \in ArgSpace :
        /\ a.serialization_dir = "fresh"
        /\ IF p = "w1"
             THEN /\ a.hparam_path = "edited"
                  /\ a.n_trials = Some(MaxTrials)
                  /\ a.param_path = "epoch"
                  /\ a.timeout
                  /\ a.pruner = Some("ThresholdPruner")
                  /\ a.skip_if_exists
             ELSE /\ a.hparam_path = "lr_opt"
                  /\ a.n_trials = Some(1)
                  /\ a.param_path = "ramp"
                  /\ ~a.timeout
                  /\ a.pruner = None
                  /\ ~a.skip_if_exists}

InitParams ==
    InitWith({A \in [Procs -> ArgSpace] : \A p \in Procs : A[p] \in ParamsArgs(p)})

SpecParams == InitParams /\ [][Next]_vars

\* the runs of Spec with w1 searching a space of two values
BestArgs(p) ==
    {a \in ArgSpace :
        /\ [a EXCEPT !.hparam_path = "seed"] \in MainArgs(p)
        /\ a.hparam_path = IF p = "w1" THEN "lr" ELSE "seed"}

InitBest == InitWith({A \in [Procs -> ArgSpace] : \A p \in Procs : A[p] \in BestArgs(p)})

SpecBest == InitBest /\ [][Next]_vars

\* runs in a serialization directory that holds the trial_1 of an earlier
\* study
DirsArgs(p) ==
    {a \in ArgSpace :
        /\ [a EXCEPT !.serialization_dir = "fresh"] \in MainArgs(p)
        /\ a.serialization_dir = "used"}

InitDirs == InitWith({A \in [Procs -> ArgSpace] : \A p \in Procs : A[p] \in DirsArgs(p)})

SpecDirs == InitDirs /\ [][Next]_vars

\* ---------------------------------------------------------------- claims

\* C1: the trial numbers the storage has handed out to the processes, in
\* whatever order they asked, are pairwise distinct and are exactly
\* 0 .. N-1 for N asks, each with its record in the study; two processes
\* never run the same trial.
C1_DistinctContiguousIds ==
    /\ \A i, j \in 1..Len(asked) : i # j => asked[i] # asked[j]
    /\ {asked[i] : i \in 1..Len(asked)} = 0..(Len(asked) - 1)
    /\ Len(study.trials) = Len(asked)
    /\ \A p, q \in Procs : p # q /\ cur[p] # None => cur[p] # cur[q]

C1_Witness ==
    /\ Len(asked) >= 3
    /\ \A p \in Procs : cur[p] # None

\* C3 (as claimed): a failed training run is not fatal, so a process that
\* has stopped on its own, its timeout not elapsed, has started all of its
\* n_trials trials.
C3_FailureNotFatal ==
    \A p \in Procs :
        pc[p] \in {"done", "raised"} /\ ~elapsed[p]
            => started[p] = NTrialsOf(args[p])

\* C5: a process that loaded an existing study finds its trials kept, and
\* every trial number it is given is greater than the highest number the
\* study held when it was loaded.
C5_ResumeContinuesIds ==
    \A p \in Procs :
        loaded[p] # None =>
            /\ Len(study.trials) >= Get(loaded[p])
            /\ cur[p] # None => Get(cur[p]) > Get(loaded[p]) - 1

C5_Witness ==
    \E p \in Procs :
        /\ loaded[p] # None
        /\ Get(loaded[p]) >= 2
        /\ cur[p] # None

\* C6: create_study on a name that exists raises DuplicatedStudyError when
\* --skip-if-exists is not given and loads the study when it is, leaving
\* the study as it was in both cases; on a free name it creates a study
\* without trials.  A process that got the error never starts a trial.
C6_CreateOrLoad ==
    [][\A p \in Procs :
          /\ pc[p] = "start" /\ pc'[p] # "start" =>
                IF study.exists
                  THEN /\ study' = study
                       /\ pc'[p] = IF args[p].skip_if_exists
                                     THEN "loop" ELSE "DuplicatedStudyError"
                  ELSE /\ study'.exists
                       /\ study'.trials = <<>>
                       /\ pc'[p] = "loop"
          /\ pc'[p] = "DuplicatedStudyError" =>
                started'[p] = 0 /\ cur'[p] = None /\ loaded'[p] = None]_vars

C6_Witness ==
    /\ \E p \in Procs : pc[p] = "DuplicatedStudyError"
    /\ Len(study.trials) >= 2

\* C4 (as claimed): when no process configures a pruner, no trial of the
\* study is ever PRUNED.
C4_NoPrunerNoPruned ==
    (\A p \in Procs : args[p].pruner = None)
        => \A n \in TrialNumbers(study) : TrialOf(study, n).state # "PRUNED"

\* C8 (as claimed): when every process is configured with a pruner that
\* rejects every reported value, no trial is ever COMPLETE and the export
\* never prints a best trial.
C8_AlwaysPruneNoComplete ==
    (\A p \in Procs : args[p].pruner = Some("ThresholdPruner"))
        => CompleteTrials(study) = {} /\ out.best = None

\* C8 (amended): under such a pruner a trial that has reported a value is
\* never COMPLETE and never FAIL: it is on its way to PRUNED or was
\* interrupted; the export raises for want of a COMPLETE trial only when the
\* study holds none, and a best trial it prints is one that never reported.
C8_ReportedTrialsPruned ==
    (\A p \in Procs : args[p].pruner = Some("ThresholdPruner")) =>
        /\ \A n \in TrialNumbers(study) :
              TrialOf(study, n).inter # <<>>
                  => TrialOf(study, n).state \in {"RUNNING", "PRUNED"}
        /\ \A p \in Procs :
              cur[p] # None /\ TrialOf(study, Get(cur[p])).inter # <<>>
                  => pc[p] \in {"pruned", "killed"}
        /\ out.raised = "ValueError" => CompleteTrials(study) = {}
        /\ CompleteTrials(study) = {} => out.best = None
        /\ out.best # None =>
              /\ TrialOf(study, Get(out.best)).state = "COMPLETE"
              /\ TrialOf(study, Get(out.best)).inter = <<>>

C8_Witness ==
    /\ pc["w2"] = "done"
    /\ \E n \in TrialNumbers(study) : TrialOf(study, n).state = "PRUNED"
    /\ out.raised = "ValueError"

\* C9: a process never starts more than n_trials trials, starts none once
\* one of its limits is reached, leaves the loop only at a limit and with
\* its trial finalized (every RUNNING trial is the trial of a process still
\* training or interrupted), and every process eventually stops.
C9_LoopTerminates ==
    /\ [](\A p \in Procs :
             /\ started[p] <= NTrialsOf(args[p])
             /\ pc[p] = "done" => cur[p] = None /\ LimitReached(p))
    /\ [](\A n \in TrialNumbers(study) :
             TrialOf(study, n).state = "RUNNING" =>
                \E p \in Procs :
                    cur[p] = Some(n)
                    /\ pc[p] \in {"asked", "train", "pruned", "killed"})
    /\ [][\A p \in Procs : started'[p] # started[p] => ~LimitReached(p)]_vars
    /\ \A p \in Procs : <>(~Alive(p))

C9_Witness ==
    /\ \A p \in Procs : pc[p] = "done"
    /\ started["w1"] = MaxTrials
    /\ elapsed["w2"] /\ started["w2"] < NTrialsOf(args["w2"])

\* C10 (as claimed): a process given neither --n-trials nor --timeout never
\* leaves the loop on its own.
C10_RunsUntilInterrupted ==
    \A p \in Procs :
        args[p].n_trials = None /\ ~args[p].timeout => pc[p] # "done"

\* the file of descriptors of a.hparam_path holds a descriptor that raises
Malformed(a) == \E h \in HparamFile(a) : FirstBad(h) # 0

\* C11 (as claimed): a run that ended on a malformed hyperparameter
\* descriptor or a malformed pruner section has created no trial in the
\* study and has started no training run.
C11_MalformedAbortsBeforeTrials ==
    \A p \in Procs :
        /\ pc[p] = "AttributeError" => started[p] = 0
        /\ pc[p] = "raised" /\ Malformed(args[p]) =>
              /\ started[p] = 0
              /\ \A n \in TrialNumbers(study) :
                    TrialOf(study, n).error \notin {"AttributeError", "ValueError"}

\* the descriptors of the files, and the one a recorded param was suggested
\* for (the names are distinct)
Descriptors == {Seed, Lr, Opt, Bogus, BadBounds}
DescriptorNamed(nm) == CHOOSE d \in Descriptors : d.name = nm

\* C12: every value recorded in the params of a trial lies within the
\* declared bounds of its descriptor (low <= value <= high for an int) or in
\* its declared choices (categorical), whatever the other trials hold.
C12_ParamsWithinBounds ==
    \A n \in TrialNumbers(study) :
        LET ps == TrialOf(study, n).params IN
        \A i \in 1..Len(ps) :
            LET d == DescriptorNamed(ps[i].name) IN
            /\ d.type \in {"int", "categorical"}
            /\ d.type = "int" => d.low <= ps[i].value /\ ps[i].value <= d.high
            /\ d.type = "categorical" => ps[i].value \in d.choices

C12_Witness ==
    \E n, m \in TrialNumbers(study) :
        LET ps == TrialOf(study, n).params
            qs == TrialOf(study, m).params
        IN  /\ TrialOf(study, n).state = "COMPLETE"
            /\ Len(ps) = 2
            /\ ps[1] = [name |-> "lr", value |-> Lr.high]
            /\ ps[2] = [name |-> "opt", value |-> Opt.high]
            /\ TrialOf(study, m).state = "PRUNED"
            /\ Len(qs) = 2
            /\ qs[2] = [name |-> "lr", value |-> Lr.low]

\* the names of the descriptors h, and of the params ps, in their order
NamesOf(h) == [i \in 1..Len(h) |-> h[i].name]

\* C17 (as claimed): a trial handed to the executor holds one value for
\* each descriptor its process read, in the order of the file, and a process
\* reads the same descriptors for every trial of its run.
C17_OneSearchSpacePerRun ==
    /\ [](\A p \in Procs :
             pc[p] \in {"train", "pruned"} =>
                NamesOf(TrialOf(study, Get(cur[p])).params) = NamesOf(Get(space[p])))
    /\ [][\A p \in Procs : space[p] # None => space'[p] = space[p]]_vars

\* C13: an export changes nothing but what it prints: the study, its
\* trials and the number of the next trial, the processes and the trial
\* directories stay as they are, also while processes run trials.  It prints
\* the params of a best trial, and raises when the study holds no COMPLETE
\* trial.
C13_ExportPureRead ==
    [][out' # NoOutput =>
          /\ study' = study
          /\ NextTrialNumber(study') = NextTrialNumber(study)
          /\ pc' = pc /\ cur' = cur /\ started' = started /\ dirs' = dirs
          /\ study.exists /\ CompleteTrials(study) = {} => out'.raised = "ValueError"
          /\ out'.raised = "ValueError" => CompleteTrials(study) = {}
          /\ out'.raised = "" =>
                /\ out'.best # None
                /\ IsBest(study, Get(out'.best))
                /\ out'.printed = TrialOf(study, Get(out'.best)).params]_vars

C13_Witness ==
    /\ out.best # None
    /\ Get(out.best) > 0
    /\ out.printed # TrialOf(study, 0).params
    /\ \E p \in Procs : pc[p] = "train"

Terminal == {"COMPLETE", "PRUNED", "FAIL"}

\* C14: a trial of the study stays in it; its state changes only from
\* RUNNING to COMPLETE, PRUNED or FAIL; once it is in one of these its
\* record never changes again, whatever any process or export does; and a
\* record is only changed by the process running that trial.
C14_FinalizedOnce ==
    [][\A n \in TrialNumbers(study) :
          /\ n \in TrialNumbers(study')
          /\ TrialOf(study, n).state \in Terminal
                => TrialOf(study', n) = TrialOf(study, n)
          /\ TrialOf(study', n).state # TrialOf(study, n).state
                => /\ TrialOf(study, n).state = "RUNNING"
                   /\ TrialOf(study', n).state \in Terminal
          /\ TrialOf(study', n) # TrialOf(study, n)
                => \E p \in Procs : cur[p] = Some(n) /\ pc'[p] # pc[p]]_vars

C14_Witness ==
    /\ \A s \in Terminal :
          \E n \in TrialNumbers(study) : TrialOf(study, n).state = s
    /\ \E p \in Procs : pc[p] = "train"
    /\ out.best # None

\* C15: once its timeout has elapsed a process starts no trial; the
\* timeout elapsing changes neither the trial in flight nor where its
\* process stands; that trial is still finalized, as COMPLETE, PRUNED or
\* FAIL, unless the process is interrupted.
C15_TimeoutBoundsStarts ==
    /\ [][\A p \in Procs :
            /\ args[p].timeout /\ elapsed[p] => started'[p] = started[p]
            /\ elapsed'[p] # elapsed[p] =>
                  pc' = pc /\ cur' = cur /\ study' = study
            /\ elapsed[p] /\ cur[p] # None /\ cur'[p] = None =>
                  TrialOf(study', Get(cur[p])).state \in Terminal]_vars
    /\ \A p \in Procs :
          [](elapsed[p] /\ cur[p] # None
                => <>(pc[p] = "killed" \/ cur[p] = None))

C15_Witness ==
    /\ elapsed["w2"]
    /\ pc["w2"] = "pruned"
    /\ started["w2"] < NTrialsOf(args["w2"])

RunningTrials == {n \in TrialNumbers(study) : TrialOf(study, n).state = "RUNNING"}

\* C16 (as claimed): a trial whose directory exists fails alone: its
\* training run is not started (no directory is made for it), it is
\* finalized as FAIL, and its process goes on to the next trial; so a
\* process that has stopped on an exception has not stopped on a directory
\* that exists.
C16_ConflictNotFatal ==
    /\ \A n \in TrialNumbers(study) :
          TrialOf(study, n).error = "DirectoryConflictError" =>
             /\ TrialOf(study, n).state = "FAIL"
             /\ \A d \in dirs : d.by # Some(n)
    /\ \A p \in Procs :
          pc[p] = "raised" =>
             \E n \in TrialNumbers(study) :
                /\ TrialOf(study, n).state = "FAIL"
                /\ TrialOf(study, n).error # "DirectoryConflictError"

\* C19: a process starts a trial only from its loop, with no trial of its
\* own under way, and then runs the objective on it; every RUNNING trial is
\* the one trial of a process that is running it or was interrupted, so
\* when no process was interrupted the study holds no more RUNNING trials
\* than processes that are live.
C19_OneTrialPerProcess ==
    /\ [](\A n \in RunningTrials :
             \E p \in Procs :
                cur[p] = Some(n) /\ pc[p] \in {"asked", "train", "pruned", "killed"})
    /\ []((\A p \in Procs : pc[p] # "killed") =>
             Cardinality(RunningTrials) <= Cardinality({p \in Procs : Alive(p)}))
    /\ [](\A p \in Procs : pc[p] \in {"start", "loop", "done", "raised"} => cur[p] = None)
    /\ [][\A p \in Procs :
            started'[p] # started[p] =>
               /\ pc[p] = "loop" /\ cur[p] = None
               /\ pc'[p] = "asked" /\ cur'[p] # None
               /\ TrialOf(study', Get(cur'[p])).state = "RUNNING"]_vars

C19_Witness ==
    /\ \A p \in Procs : pc[p] = "train"
    /\ Cardinality(RunningTrials) = Cardinality(Procs)
    /\ \E n \in TrialNumbers(study) : TrialOf(study, n).state = "COMPLETE"
    /\ \E n \in TrialNumbers(study) : TrialOf(study, n).state = "PRUNED"

\* C20: every trial directory a run made is the directory of the number
\* of the trial it was made for, no directory was made twice, and a trial
\* that found its directory existing found one that no trial of the study
\* made, also with two processes at work and after a resume.
C20_DistinctTrialDirs ==
    /\ \A d \in dirs :
          d.by # None =>
             /\ Get(d.by) \in TrialNumbers(study)
             /\ \E p \in Procs : d.path = <<args[p].serialization_dir, Get(d.by)>>
    /\ \A d, e \in dirs : d.path = e.path => d = e
    /\ \A n \in TrialNumbers(study) :
          TrialOf(study, n).error = "DirectoryConflictError" =>
             \A d \in dirs : d.path[2] = n => d.by = None

C20_Witness ==
    /\ \E p \in Procs : loaded[p] # None /\ Get(loaded[p]) >= 1 /\ started[p] >= 1
    /\ Cardinality({d \in dirs : d.by # None}) >= 2
    /\ \E n \in TrialNumbers(study) : TrialOf(study, n).error = "DirectoryConflictError"

====
